---- MODULE Spec2Model ----
(***************************************************************************)
(* A model of drive-folder-api: the Express handlers of src/server.js      *)
(* (case-folder provisioning, portal tokens, preview containment, the case *)
(* registry) over a storage provider and a relational store.               *)
(*                                                                         *)
(* Strings are run-length encoded: a string is a sequence of runs          *)
(* [ch |-> c, n |-> k], the code unit c repeated k times, kept normalised  *)
(* (every n >= 1, adjacent runs differ in ch), so that equality of the     *)
(* encodings is equality of the strings and a 200-unit string is small.    *)
(***************************************************************************)
EXTENDS Integers, Sequences, FiniteSets, TLC

VARIABLES
  env,    \* process.env, fixed at start-up
  drive,  \* the storage provider's files: drive[id] is the file with that id
  cc,     \* a POST /create-case-folders request in progress
  resp,   \* the answer of the latest request served in one step
  clock,  \* the server's time in seconds, and how often it has advanced
  tokens, \* the portal tokens POST /issue-portal-link has returned
  sz,     \* sanitize applied to an input, then to its own output
  db,     \* the registry's committed rows and sequences
  reg,    \* a POST /api/cases request in progress, and the calls answered 200
  cc2,    \* a second POST /create-case-folders request in progress
  mv      \* the POST /move-file-smart requests received, in order of arrival

vars == <<env, drive, cc, resp, clock, tokens, sz, db, reg, cc2, mv>>

----------------------------------------------------------------------------
(* Strings *)

R(c, k) == [ch |-> c, n |-> k]

\* The one-run string c repeated k times, and a literal from its code units.
Rep(c, k) == <<R(c, k)>>
Lit(cs) == [i \in 1..Len(cs) |-> R(cs[i], 1)]

RECURSIVE Norm(_)
Norm(s) ==
  IF s = <<>> THEN <<>>
  ELSE IF Head(s).n = 0 THEN Norm(Tail(s))
  ELSE LET rest == Norm(Tail(s))
       IN IF rest # <<>> /\ Head(rest).ch = Head(s).ch
          THEN <<R(Head(s).ch, Head(s).n + Head(rest).n)>> \o Tail(rest)
          ELSE <<Head(s)>> \o rest

RECURSIVE StrLen(_)
StrLen(s) == IF s = <<>> THEN 0 ELSE Head(s).n + StrLen(Tail(s))

\* The characters of the class /[\\/:*?"<>|]/ and the whitespace String.trim removes.
UnsafeChars == {"\\", "/", ":", "*", "?", "\"", "<", ">", "|"}
WhiteSpace == {" ", "\t"}

\* s.replace(/[\\/:*?"<>|]/g, '')
RECURSIVE StripUnsafe(_)
StripUnsafe(s) ==
  IF s = <<>> THEN <<>>
  ELSE IF Head(s).ch \in UnsafeChars THEN StripUnsafe(Tail(s))
  ELSE <<Head(s)>> \o StripUnsafe(Tail(s))

RECURSIVE TrimStart(_)
TrimStart(s) ==
  IF s # <<>> /\ Head(s).ch \in WhiteSpace THEN TrimStart(Tail(s)) ELSE s

RECURSIVE TrimEnd(_)
TrimEnd(s) ==
  IF s # <<>> /\ s[Len(s)].ch \in WhiteSpace
  THEN TrimEnd(SubSeq(s, 1, Len(s) - 1)) ELSE s

\* s.trim()
Trim(s) == TrimEnd(TrimStart(s))

\* s.slice(0, k)
RECURSIVE Slice(_, _)
Slice(s, k) ==
  IF s = <<>> \/ k <= 0 THEN <<>>
  ELSE IF Head(s).n >= k THEN <<R(Head(s).ch, k)>>
  ELSE <<Head(s)>> \o Slice(Tail(s), k - Head(s).n)

MaxNameLen == 200

sanitize(s) == Slice(Trim(Norm(StripUnsafe(s))), MaxNameLen)

----------------------------------------------------------------------------
(* The storage provider (Google Drive v3, black box).  Ids are opaque: the  *)
(* provider hands out the next index of drive.  A file created without      *)
(* parents lands in the provider's root folder.  webViewLink is a function  *)
(* of the id and is left out of the records.                                *)

FOLDER_MIME == "application/vnd.google-apps.folder"

MyDriveId == 1
DefaultParentId == 2

Node(name, mime, parents) ==
  [name |-> name, mime |-> mime, parents |-> parents, grants |-> 0, size |-> 0,
   description |-> <<>>]

\* The provider root, and the folder GOOGLE_DRIVE_PARENT_ID may name.
Drive0 ==
  << Node(Lit(<<"M">>), FOLDER_MIME, <<>>),
     Node(Lit(<<"D">>), FOLDER_MIME, <<MyDriveId>>) >>

Ids(d) == 1..Len(d)

Range(s) == {s[i] : i \in 1..Len(s)}

\* drive.files.create: refused when a named parent does not exist.
CanCreate(d, parents) == Range(parents) \subseteq Ids(d)

FilesCreate(d, name, mime, parents) ==
  Append(d, Node(name, mime, IF parents = <<>> THEN <<MyDriveId>> ELSE parents))

\* drive.permissions.create with { role: 'reader', type: 'anyone' }
PermissionsCreate(d, id) == [d EXCEPT ![id].grants = @ + 1]

\* drive.files.get with fields id,name
Info(d, id) == [id |-> id, name |-> d[id].name]

PageSize == 1000

RECURSIVE SortedIds(_)
SortedIds(S) ==
  IF S = {} THEN <<>>
  ELSE LET m == CHOOSE x \in S : \A y \in S : x <= y
       IN <<m>> \o SortedIds(S \ {m})

Reverse(s) == [i \in 1..Len(s) |-> s[Len(s) + 1 - i]]

Take(s, k) == IF Len(s) <= k THEN s ELSE SubSeq(s, 1, k)

\* drive.files.list with q = "'parentId' in parents [and mimeType=folder] and
\* trashed=false": the provider's order is its own (here by id, either way), and
\* at most pageSize entries come back.
ChildIds(d, parentId, foldersOnly) ==
  {i \in Ids(d) : /\ parentId \in Range(d[i].parents)
                  /\ (foldersOnly => d[i].mime = FOLDER_MIME)}

FilesList(d, parentId, foldersOnly, desc, pageSize) ==
  LET asc == SortedIds(ChildIds(d, parentId, foldersOnly))
      ord == IF desc THEN Reverse(asc) ELSE asc
  IN Take([i \in 1..Len(ord) |-> Info(d, ord[i])], pageSize)

\* A listing that forgets the mimeType filter.
listChildrenAnyMime(d, parentId, desc) == FilesList(d, parentId, FALSE, desc, PageSize)

listChildFolders(d, parentId, desc) == FilesList(d, parentId, TRUE, desc, PageSize)

\* Object.fromEntries(entries): a later entry with the same key wins.
RECURSIVE FromEntries(_)
FromEntries(es) ==
  IF es = <<>> THEN <<>>
  ELSE (es[Len(es)][1] :> es[Len(es)][2]) @@ FromEntries(SubSeq(es, 1, Len(es) - 1))

Env0 ==
  [GOOGLE_DRIVE_PARENT_ID |-> 0, PORTAL_JWT_SECRET |-> "", JWT_SECRET |-> "",
   PORTAL_URL_BASE |-> "", PREVIEW_MAX_BYTES |-> 0]

Clock0 == [now |-> 0, ticks |-> 0]

SzIdle == [pc |-> "idle", x |-> <<>>, y1 |-> <<>>, y2 |-> <<>>]

NoResp == [route |-> "none", status |-> 0]

\* The registry's tables after the migration, and their BIGSERIAL sequences.
Db0 ==
  [cases |-> {}, links |-> {}, documents |-> {}, caseSeq |-> 0, linkSeq |-> 0, docSeq |-> 0]

NoTx == [cases |-> {}, links |-> {}]

Null == [isNull |-> TRUE, val |-> ""]

RegIdle ==
  [pc |-> "idle", debtorName |-> Null, tx |-> NoTx, publicId |-> "",
   before |-> [cases |-> {}, links |-> {}], answered |-> {}]

----------------------------------------------------------------------------
(* POST /create-case-folders.  A task is a call chain the handler has       *)
(* issued (createFolder is files.create then files.get), served by the      *)
(* provider in any order; Promise.all waits for all tasks of the fan-out,   *)
(* and the first failure sends the handler to its catch while the siblings  *)
(* already issued run on.                                                   *)

statusNames ==
  << Lit(<<"0", "1", "_", "u63D0", "u51FA", "u7269">>),
     Lit(<<"0", "2", "_", "u627F", "u8A8D", "u6E08">>),
     Lit(<<"0", "3", "_", "u5DEE", "u3057", "u623B", "u3057">>) >>

MANIFEST_NAME == Lit(<<"manifest.csv">>)

\* createFolder(name, parents): the name is sanitized, parents passed when non-empty.
createFolder(name, parents) ==
  [kind |-> "folder", name |-> sanitize(name), mime |-> FOLDER_MIME,
   parents |-> parents, st |-> "create", id |-> 0]

grantPublic(fileId) ==
  [kind |-> "grant", name |-> <<>>, mime |-> "", parents |-> <<>>,
   st |-> "create", id |-> fileId]

createManifestFile(rootId) ==
  [kind |-> "file", name |-> MANIFEST_NAME, mime |-> "text/csv",
   parents |-> <<rootId>>, st |-> "create", id |-> 0]

CcIdle ==
  [pc |-> "idle", rootName |-> <<>>, docTypes |-> <<>>, makePublic |-> FALSE,
   createManifest |-> FALSE, tasks |-> <<>>, root |-> [id |-> 0, name |-> <<>>],
   statusCreated |-> <<>>, si |-> 0, byStatus |-> <<>>,
   status |-> 0, body |-> <<>>]

Waiting == {"root", "status", "doc", "grant", "manifest"}

MapSeq(s, F(_)) == [i \in 1..Len(s) |-> F(s[i])]

RECURSIVE Flat(_)
Flat(ss) == IF ss = <<>> THEN <<>> ELSE Head(ss) \o Flat(Tail(ss))

\* Object.values(byStatus): the values in insertion order of their keys.
ObjectValues(c) ==
  LET keys == MapSeq(c.statusCreated, LAMBDA s : s.name)
      first(i) == \A j \in 1..(i - 1) : keys[j] # keys[i]
      RECURSIVE vals(_)
      vals(i) == IF i > Len(keys) THEN <<>>
                 ELSE (IF first(i) /\ keys[i] \in DOMAIN c.byStatus
                       THEN <<c.byStatus[keys[i]]>> ELSE <<>>) \o vals(i + 1)
  IN vals(1)

\* A fan-out that creates one folder per distinct docType only.
RECURSIVE Dedup(_)
Dedup(s) ==
  IF s = <<>> THEN <<>>
  ELSE LET front == Dedup(SubSeq(s, 1, Len(s) - 1))
       IN IF s[Len(s)] \in Range(front) THEN front ELSE Append(front, s[Len(s)])

docTasksDedup(c, s) == MapSeq(Dedup(c.docTypes), LAMBDA dt : createFolder(dt, <<s.id>>))

\* (docTypes || []).map((dt) => createFolder(dt, [s.id]))
docTasks(c, s) == MapSeq(c.docTypes, LAMBDA dt : createFolder(dt, <<s.id>>))

Respond(c) ==
  [c EXCEPT !.pc = "done", !.tasks = <<>>, !.status = 200,
            !.body = [root |-> c.root,
                      statusFolders |-> [pending |-> c.statusCreated[1],
                                         approved |-> c.statusCreated[2],
                                         rejected |-> c.statusCreated[3]],
                      docFolders |-> c.byStatus]]

\* if (createManifest) await drive.files.create(manifest.csv); res.json(...)
AfterGrants(c, createManifest) ==
  IF createManifest
  THEN [c EXCEPT !.createManifest = TRUE, !.pc = "manifest",
                 !.tasks = <<createManifestFile(c.root.id)>>]
  ELSE Respond(c)

\* if (makePublic) await Promise.all(allIds.map((id) => grantPublic(id)))
AfterDocs(c, makePublic, createManifest) ==
  IF makePublic
  THEN LET allIds == <<c.root.id>> \o MapSeq(c.statusCreated, LAMBDA s : s.id)
                     \o MapSeq(Flat(ObjectValues(c)), LAMBDA f : f.id)
       IN [c EXCEPT !.makePublic = TRUE, !.pc = "grant",
                    !.tasks = MapSeq(allIds, grantPublic)]
  ELSE AfterGrants(c, createManifest)

TaskInfo(t) == [id |-> t.id, name |-> t.name]

\* An await that hands the results over in the order the provider served them
\* (the provider numbers files in the order it creates them).
RECURSIVE promiseAllByCompletion(_)
promiseAllByCompletion(tasks) ==
  IF tasks = <<>> THEN <<>>
  ELSE LET i == CHOOSE i \in 1..Len(tasks) : \A j \in 1..Len(tasks) : tasks[i].id <= tasks[j].id
       IN <<TaskInfo(tasks[i])>>
          \o promiseAllByCompletion(SubSeq(tasks, 1, i - 1) \o SubSeq(tasks, i + 1, Len(tasks)))

\* await Promise.all(promises): the results in the order of the promises.
PromiseAll(tasks) == MapSeq(tasks, TaskInfo)

\* What the handler does when the Promise.all it awaits resolves, up to its next
\* await.  makePublic and createManifest are the body's flags: nothing depends on
\* them before the handler tests them, so they are drawn where they are tested.
Resume(c, makePublic, createManifest) ==
  LET results == PromiseAll(c.tasks)
  IN CASE c.pc = "root" ->
            [c EXCEPT !.root = results[1], !.pc = "status",
                      !.tasks = MapSeq(statusNames,
                                       LAMBDA n : createFolder(n, <<results[1].id>>))]
       [] c.pc = "status" ->
            LET c1 == [c EXCEPT !.statusCreated = results, !.si = 1, !.pc = "doc"]
            IN [c1 EXCEPT !.tasks = docTasks(c1, results[1])]
       [] c.pc = "doc" ->
            LET s == c.statusCreated[c.si]
                c1 == [c EXCEPT !.byStatus = (s.name :> results) @@ c.byStatus]
            IN IF c.si < Len(c.statusCreated)
               THEN [c1 EXCEPT !.si = c.si + 1,
                               !.tasks = docTasks(c1, c.statusCreated[c.si + 1])]
               ELSE AfterDocs(c1, makePublic, createManifest)
       [] c.pc = "grant" -> AfterGrants(c, createManifest)
       [] c.pc = "manifest" -> Respond(c)

RootNames == {Lit(<<"r">>)}
DocTypeNames == {Lit(<<"a">>), Lit(<<"/">>)}
MaxDocTypes == 2

SeqsUpTo(S, k) == UNION {[1..m -> S] : m \in 0..k}

\* The handler up to its first await.
\* The handlers below are written for one request in progress, c, whose next state
\* is cNext; the server runs as many of them as there are requests.
CreateCaseFoldersOn(c, cNext, rootName, docTypes, parentId) ==
  /\ c.pc = "idle"
  /\ IF rootName = <<>>
     THEN cNext = [c EXCEPT !.pc = "done", !.status = 400]
     ELSE LET parents == IF parentId # 0 THEN <<parentId>>
                         ELSE IF env.GOOGLE_DRIVE_PARENT_ID # 0
                              THEN <<env.GOOGLE_DRIVE_PARENT_ID>> ELSE <<>>
          IN cNext = [c EXCEPT !.pc = "root", !.rootName = rootName,
                               !.docTypes = docTypes,
                               !.tasks = <<createFolder(rootName, parents)>>]
  /\ UNCHANGED drive

CreateCaseFolders(rootName, docTypes, parentId) ==
  /\ CreateCaseFoldersOn(cc, cc', rootName, docTypes, parentId)
  /\ UNCHANGED <<env, resp, clock, tokens, sz, db, reg, cc2, mv>>

\* A catch that asks the provider to delete what the request had created.
CatchWithRollback(c) ==
  LET made == <<c.root.id>> \o MapSeq(c.statusCreated, LAMBDA s : s.id)
      undo(id) == [kind |-> "delete", name |-> <<>>, mime |-> "", parents |-> <<>>,
                   st |-> "create", id |-> id]
  IN [c EXCEPT !.pc = "failed", !.status = 500, !.tasks = c.tasks \o MapSeq(made, undo)]

\* A catch that answers 500 and lets the handler go on to its next step.
CatchAndGoOn(c) ==
  LET served == [i \in 1..Len(c.tasks) |-> [c.tasks[i] EXCEPT !.st = "done"]]
      next == Resume([c EXCEPT !.tasks = served], FALSE, FALSE)
  IN [next EXCEPT !.pc = "failed", !.status = 500]

\* The awaited Promise.all rejects with the first failure, and the rejection runs
\* the handler's catch before any other provider answer is handled: 500.
Catch(c) == [c EXCEPT !.pc = "failed", !.status = 500]

\* The provider serves the call chain of task i: files.create and, for a folder,
\* the files.get that createFolder issues next.  The get reads back what the create
\* wrote and nothing renames a file in between, so the chain is one step with
\* three outcomes: both calls served, the create refused, the get refused.
\* A provider that, asked to create a folder, hands back a folder of the same name
\* and parents when it has one.
ProviderCreateOrReuseOn(c, cNext, i) ==
  LET same == {id \in Ids(drive) : /\ drive[id].name = c.tasks[i].name
                                   /\ drive[id].mime = c.tasks[i].mime
                                   /\ drive[id].parents = c.tasks[i].parents}
  IN /\ c.tasks[i].st = "create" /\ c.tasks[i].kind \in {"folder", "file"}
     /\ CanCreate(drive, c.tasks[i].parents)
     /\ IF same # {}
        THEN /\ UNCHANGED drive
             /\ cNext = [c EXCEPT !.tasks[i].id = CHOOSE id \in same : TRUE,
                                  !.tasks[i].st = "done"]
        ELSE /\ drive' = FilesCreate(drive, c.tasks[i].name, c.tasks[i].mime,
                                     c.tasks[i].parents)
             /\ cNext = [c EXCEPT !.tasks[i].id = Len(drive) + 1, !.tasks[i].st = "done"]

ProviderCreateOn(c, cNext, i) ==
  /\ c.tasks[i].st = "create" /\ c.tasks[i].kind \in {"folder", "file"}
  /\ CanCreate(drive, c.tasks[i].parents)
  /\ drive' = FilesCreate(drive, c.tasks[i].name, c.tasks[i].mime, c.tasks[i].parents)
  /\ cNext = [c EXCEPT !.tasks[i].id = Len(drive) + 1, !.tasks[i].st = "done",
                       !.tasks[i].name = Info(drive', Len(drive) + 1).name]

ProviderCreate(i) ==
  /\ ProviderCreateOn(cc, cc', i)
  /\ UNCHANGED <<env, resp, clock, tokens, sz, db, reg, cc2, mv>>

\* files.create is served and the files.get after it fails: the folder stays.
ProviderGetFailOn(c, cNext, i) ==
  /\ c.pc \in Waiting
  /\ c.tasks[i].st = "create" /\ c.tasks[i].kind = "folder"
  /\ CanCreate(drive, c.tasks[i].parents)
  /\ drive' = FilesCreate(drive, c.tasks[i].name, c.tasks[i].mime, c.tasks[i].parents)
  /\ cNext = Catch([c EXCEPT !.tasks[i].id = Len(drive) + 1, !.tasks[i].st = "failed"])

ProviderGetFail(i) ==
  /\ ProviderGetFailOn(cc, cc', i)
  /\ UNCHANGED <<env, resp, clock, tokens, sz, db, reg, cc2, mv>>

\* The provider serves the permissions.create of task i.  The grants of a fan-out
\* touch different files and the handler sees only their completion, so the
\* provider is taken to serve them in the order they were issued.
ProviderGrantOn(c, cNext, i) ==
  /\ c.tasks[i].st = "create" /\ c.tasks[i].kind = "grant"
  /\ \A j \in 1..(i - 1) : c.tasks[j].st # "create"
  /\ drive' = PermissionsCreate(drive, c.tasks[i].id)
  /\ cNext = [c EXCEPT !.tasks[i].st = "done"]

ProviderGrant(i) ==
  /\ ProviderGrantOn(cc, cc', i)
  /\ UNCHANGED <<env, resp, clock, tokens, sz, db, reg, cc2, mv>>

\* The provider call task i is waiting for fails.  Once the handler has answered,
\* a failing sibling changes nothing anywhere and is the same as a call that is
\* never served, so only the failures the handler still awaits are steps.
ProviderFailOn(c, cNext, i) ==
  /\ c.pc \in Waiting
  /\ c.tasks[i].st = "create"
  /\ c.tasks[i].kind = "grant" => \A j \in 1..(i - 1) : c.tasks[j].st # "create"
  /\ cNext = Catch([c EXCEPT !.tasks[i].st = "failed"])
  /\ UNCHANGED drive

ProviderFail(i) ==
  /\ ProviderFailOn(cc, cc', i)
  /\ UNCHANGED <<env, resp, clock, tokens, sz, db, reg, cc2, mv>>

AllDone(c) == \A i \in 1..Len(c.tasks) : c.tasks[i].st = "done"

\* The awaited Promise.all resolves and the handler runs to its next await.
CcResumeOn(c, cNext, makePublic, createManifest) ==
  /\ c.pc \in Waiting /\ AllDone(c)
  /\ cNext = Resume(c, makePublic, createManifest)
  /\ UNCHANGED drive

CcResume(makePublic, createManifest) ==
  /\ CcResumeOn(cc, cc', makePublic, createManifest)
  /\ UNCHANGED <<env, resp, clock, tokens, sz, db, reg, cc2, mv>>

\* GET /case-structure?rootId=...
caseStructure(d, rootId, desc) ==
  LET statuses == listChildFolders(d, rootId, desc)
  IN [statusFolders |-> FromEntries(MapSeq(statuses, LAMBDA f : <<f.name, f>>)),
      docFolders |-> FromEntries(MapSeq(statuses,
                        LAMBDA s : <<s.name, listChildFolders(d, s.id, desc)>>))]

CaseStructure(rootId) ==
  /\ cc.pc = "done" /\ resp = NoResp
  /\ \/ /\ rootId = 0
        /\ resp' = [route |-> "case-structure", rootId |-> rootId, status |-> 400,
                    calls |-> 0]
     \/ /\ rootId # 0
        /\ \E desc \in BOOLEAN :
             resp' = [route |-> "case-structure", rootId |-> rootId, status |-> 200,
                      calls |-> 1 + Len(listChildFolders(drive, rootId, desc)),
                      body |-> caseStructure(drive, rootId, desc)]
     \/ /\ rootId # 0
        /\ resp' = [route |-> "case-structure", rootId |-> rootId, status |-> 500,
                    calls |-> 1]
  /\ UNCHANGED <<env, drive, cc, clock, tokens, sz, db, reg, cc2, mv>>

InitTree ==
  /\ env = [Env0 EXCEPT !.GOOGLE_DRIVE_PARENT_ID = DefaultParentId]
  /\ drive = Drive0 /\ cc = CcIdle /\ resp = NoResp /\ sz = SzIdle
  /\ clock = Clock0 /\ tokens = {}
  /\ db = Db0 /\ reg = RegIdle /\ cc2 = CcIdle /\ mv = <<>>

NextTree ==
  \/ \E rootName \in RootNames \cup {<<>>},
        docTypes \in SeqsUpTo(DocTypeNames, MaxDocTypes), parentId \in {0, MyDriveId} :
       /\ parentId = 0 \/ Len(docTypes) <= 1
       /\ CreateCaseFolders(rootName, docTypes, parentId)
  \/ \E i \in 1..Len(cc.tasks) :
       ProviderCreate(i) \/ ProviderGetFail(i) \/ ProviderGrant(i) \/ ProviderFail(i)
  \/ \E makePublic \in BOOLEAN, createManifest \in BOOLEAN :
       CcResume(makePublic, createManifest)
  \/ \E rootId \in {0, MyDriveId, cc.root.id} : CaseStructure(rootId)

SpecTree == InitTree /\ [][NextTree]_vars

\* C12: sanitization fails closed in the builder: a rootName or docTypes entry whose
\* sanitized form is empty is answered with a validation error, and the provider
\* never holds a folder with an empty name that the builder created.
SanitizeFailsClosed ==
  /\ \A i \in Ids(drive) \ Ids(Drive0) : drive[i].name # <<>>
  /\ (cc.pc # "idle" /\ \E k \in 1..Len(cc.docTypes) : sanitize(cc.docTypes[k]) = <<>>) =>
       cc.status \in {0, 400}

----------------------------------------------------------------------------
(* Case Tree Builder and Resolver *)

Values(f) == {f[k] : k \in DOMAIN f}
FolderIds(d) == {i \in Ids(d) : d[i].mime = FOLDER_MIME}
BuildOk == cc.pc = "done" /\ cc.status = 200

\* C14: whatever the order in which the provider serves the calls of a fan-out, the
\* answer is positional: pending, approved and rejected are the folders of the
\* first, second and third status name, and the i-th entry of every docFolders
\* list is the folder created for the i-th docType under that status folder.
BuilderPositional ==
  BuildOk =>
    LET sf == cc.body.statusFolders
        bySlot == <<sf.pending, sf.approved, sf.rejected>>
    IN \A k \in 1..3 :
         /\ bySlot[k].name = sanitize(statusNames[k])
         /\ drive[bySlot[k].id].name = sanitize(statusNames[k])
         /\ drive[bySlot[k].id].parents = <<cc.body.root.id>>
         /\ bySlot[k].name \in DOMAIN cc.body.docFolders
         /\ LET list == cc.body.docFolders[bySlot[k].name]
            IN /\ Len(list) = Len(cc.docTypes)
               /\ \A i \in 1..Len(list) :
                    /\ list[i].name = sanitize(cc.docTypes[i])
                    /\ drive[list[i].id].name = sanitize(cc.docTypes[i])
                    /\ drive[list[i].id].parents = <<bySlot[k].id>>

\* A build with two different docTypes whose status folders and docType folders
\* were created in another order than they were asked for.
BuilderPositionalWitness ==
  /\ BuildOk /\ Len(cc.docTypes) = 2 /\ cc.docTypes[1] # cc.docTypes[2]
  /\ cc.body.statusFolders.pending.id > cc.body.statusFolders.rejected.id
  /\ LET list == cc.body.docFolders[cc.body.statusFolders.pending.name]
     IN list[1].id > list[2].id

\* The provider calls the request has issued in its current step.
IssuedCalls(c) == [i \in 1..Len(c.tasks) |-> <<c.tasks[i].kind, c.tasks[i].parents>>]

\* The folders the provider has told the handler it created.
ReportedToHandler(c) ==
  {c.root.id} \cup {c.statusCreated[i].id : i \in 1..Len(c.statusCreated)}
  \cup {c.tasks[i].id : i \in {j \in 1..Len(c.tasks) :
                                  c.tasks[j].kind = "folder" /\ c.tasks[j].st = "done"}}

\* C15: there is no rollback: a provider failure is answered 500 with no success
\* body, every folder created before it stays at the provider with its name and
\* parents, and the handler issues no delete or other compensating call.
NoRollback ==
  /\ [](cc.pc = "failed" =>
         /\ cc.status = 500 /\ cc.body = <<>>
         /\ \A i \in 1..Len(cc.tasks) : cc.tasks[i].kind \in {"folder", "file", "grant"}
         /\ \A id \in ReportedToHandler(cc) \ {0} :
              id \in Ids(drive) /\ drive[id].mime = FOLDER_MIME)
  /\ [][\A id \in Ids(drive) :
          /\ id \in Ids(drive')
          /\ drive'[id].name = drive[id].name /\ drive'[id].parents = drive[id].parents
          /\ drive'[id].mime = drive[id].mime]_vars

\* A docType folder's creation failed after the root, the three status folders and
\* another docType folder had been created: all five are still there.
NoRollbackWitness ==
  /\ cc.pc = "failed" /\ cc.status = 500
  /\ cc.root.id # 0 /\ Len(cc.statusCreated) = 3
  /\ \E i, j \in 1..Len(cc.tasks) :
       /\ cc.tasks[i].st = "failed" /\ cc.tasks[i].kind = "folder"
       /\ cc.tasks[j].st = "done" /\ cc.tasks[j].kind = "folder"
       /\ drive[cc.tasks[j].id].parents = <<cc.statusCreated[cc.si].id>>
  /\ Cardinality(FolderIds(drive) \ Ids(Drive0)) >= 5

\* C16: the first failure of a fan-out ends the wait: the handler answers 500 at
\* once and issues no call of a later step, then or afterwards, while the calls it
\* had already issued may still be served and create their folders.
FanOutAbandoned ==
  /\ [][(cc.pc \in Waiting /\ (cc'.pc = "failed" \/ cc'.status = 500))
          => /\ cc'.pc = "failed" /\ cc'.status = 500
             /\ IssuedCalls(cc') = IssuedCalls(cc)
             /\ \E j \in 1..Len(cc.tasks) :
                  cc.tasks[j].st = "create" /\ cc'.tasks[j].st = "failed"]_vars
  /\ [][cc.pc = "failed"
          => /\ cc'.pc = "failed" /\ cc'.status = 500
             /\ IssuedCalls(cc') = IssuedCalls(cc)
             /\ cc'.root = cc.root /\ cc'.statusCreated = cc.statusCreated
             /\ cc'.byStatus = cc.byStatus]_vars

\* After the files.get of one status folder failed and the request was answered
\* 500, the provider served a sibling's files.create: a folder made after the
\* failure.
FanOutAbandonedWitness ==
  /\ cc.pc = "failed" /\ cc.status = 500 /\ cc.statusCreated = <<>> /\ cc.root.id # 0
  /\ \E i, j \in 1..Len(cc.tasks) :
       /\ cc.tasks[i].st = "failed" /\ cc.tasks[i].id # 0
       /\ cc.tasks[j].st = "done" /\ cc.tasks[j].id > cc.tasks[i].id
       /\ drive[cc.tasks[j].id].parents = <<cc.root.id>>

\* C1: a successful POST /create-case-folders with n docTypes (duplicates counted)
\* has created exactly 1 root, 3 status folders under the root and n docType
\* folders under each status folder, and answers a docFolders map whose keys are
\* exactly the 3 status-folder names, each with an array of length n.
BuilderCounts ==
  BuildOk =>
    LET n == Len(cc.docTypes)
        b == cc.body
        statusIds == {b.statusFolders.pending.id, b.statusFolders.approved.id,
                      b.statusFolders.rejected.id}
    IN /\ Cardinality(FolderIds(drive) \ FolderIds(Drive0)) = 1 + 3 + 3 * n
       /\ b.root.id \in FolderIds(drive) \ FolderIds(Drive0)
       /\ ChildIds(drive, b.root.id, TRUE) = statusIds
       /\ Cardinality(statusIds) = 3
       /\ \A s \in statusIds :
            /\ drive[s].parents = <<b.root.id>>
            /\ Cardinality(ChildIds(drive, s, TRUE)) = n
       /\ DOMAIN b.docFolders = {drive[s].name : s \in statusIds}
       /\ DOMAIN b.docFolders = Range(statusNames)
       /\ \A k \in DOMAIN b.docFolders : Len(b.docFolders[k]) = n

\* A build with a repeated docType has succeeded.
BuilderCountsWitness ==
  /\ BuildOk
  /\ Len(cc.docTypes) = 2 /\ cc.docTypes[1] = cc.docTypes[2]

ResolvedBuiltRoot ==
  /\ BuildOk
  /\ resp.route = "case-structure" /\ resp.status = 200
  /\ resp.rootId = cc.body.root.id

\* C2: GET /case-structure on the root a successful POST /create-case-folders has
\* just returned answers the builder's status-folder ids and the builder's
\* docType-folder ids, as sets, with or without createManifest.
ResolverMatchesBuilder ==
  ResolvedBuiltRoot =>
    LET b == cc.body
        r == resp.body
    IN /\ {f.id : f \in Values(r.statusFolders)}
            = {b.statusFolders.pending.id, b.statusFolders.approved.id,
               b.statusFolders.rejected.id}
       /\ UNION {{f.id : f \in Range(l)} : l \in Values(r.docFolders)}
            = UNION {{f.id : f \in Range(l)} : l \in Values(b.docFolders)}

\* The root of a build with a manifest and two docTypes has been resolved.
ResolverMatchesBuilderWitness ==
  /\ ResolvedBuiltRoot
  /\ cc.createManifest /\ Len(cc.docTypes) >= 2

----------------------------------------------------------------------------
(* Portal tokens.  A token is its claim set together with the secret that   *)
(* signed it: jsonwebtoken accepts a token under a secret exactly when that *)
(* secret signed it and the clock has not reached its exp.                  *)

PORTAL_TTL == 2592000

NoExp == -1

\* The scope claim: an array of capabilities, or anything else (absent included).
ScopeList(items) == [isArray |-> TRUE, items |-> items]
NotAList == [isArray |-> FALSE, items |-> <<>>]

NoToken ==
  [key |-> "", role |-> "", rootId |-> 0, debtorFolderId |-> 0, debtorName |-> <<>>,
   docTypes |-> <<>>, scope |-> NotAList, iat |-> 0, exp |-> NoExp]

\* jwt.sign(payload, secret, { expiresIn })
jwtSign(payload, secret, expiresIn, now) ==
  [payload EXCEPT !.key = secret, !.iat = now, !.exp = now + expiresIn]

\* jwt.verify that never looks at exp.
jwtVerifyNoExp(token, secret, now) == secret # "" /\ token.key = secret

\* jwt.verify(token, secret): TRUE when it returns the payload, FALSE when it throws.
jwtVerify(token, secret, now) ==
  /\ secret # ""
  /\ token.key = secret
  /\ (token.exp # NoExp => now < token.exp)

verifyPortalToken(token, now) == jwtVerify(token, env.PORTAL_JWT_SECRET, now)

\* A request carries a token in its Authorization header, in its query, or nowhere.
Req(hdr, query) == [hdr |-> hdr, query |-> query]

Next0 == 0

\* requireDebtor: status Next0 stands for next() with req.portal set.
requireDebtor(req, now) ==
  LET token == IF req.hdr # NoToken THEN req.hdr ELSE req.query
  IN IF token = NoToken THEN [status |-> 401, portal |-> NoToken]
     ELSE IF ~verifyPortalToken(token, now) THEN [status |-> 401, portal |-> NoToken]
     ELSE IF token.role # "debtor" THEN [status |-> 403, portal |-> NoToken]
     ELSE [status |-> Next0, portal |-> token]

\* A role-or-scope gate that lets every debtor through.
reviewerOrDebtorNoScope(req, now) ==
  IF req.hdr = NoToken THEN [status |-> 401, portal |-> NoToken]
  ELSE IF ~jwtVerify(req.hdr, env.JWT_SECRET, now) THEN [status |-> 401, portal |-> NoToken]
  ELSE IF req.hdr.role = "reviewer" THEN [status |-> Next0, portal |-> NoToken]
  ELSE IF req.hdr.role = "debtor" THEN [status |-> Next0, portal |-> req.hdr]
  ELSE [status |-> 403, portal |-> NoToken]

\* reviewerOrDebtor: the token comes from the Authorization header only.
reviewerOrDebtor(req, now) ==
  IF req.hdr = NoToken THEN [status |-> 401, portal |-> NoToken]
  ELSE IF ~jwtVerify(req.hdr, env.JWT_SECRET, now) THEN [status |-> 401, portal |-> NoToken]
  ELSE IF req.hdr.role = "reviewer" THEN [status |-> Next0, portal |-> NoToken]
  ELSE IF req.hdr.role = "debtor"
       THEN LET sc == IF req.hdr.scope.isArray THEN req.hdr.scope.items ELSE <<>>
            IN IF "preview" \notin Range(sc) /\ "list" \notin Range(sc)
               THEN [status |-> 403, portal |-> NoToken]
               ELSE [status |-> Next0, portal |-> req.hdr]
  ELSE [status |-> 403, portal |-> NoToken]

MaxTicks == 3
MaxTokens == 2

\* Time passes.
Tick(d) ==
  /\ clock.ticks < MaxTicks
  /\ clock' = [now |-> clock.now + d, ticks |-> clock.ticks + 1]
  /\ resp' = NoResp
  /\ UNCHANGED <<env, drive, cc, tokens, sz, db, reg, cc2, mv>>

\* POST /issue-portal-link
IssuePortalLink(rootId, debtorName, docTypes) ==
  /\ Cardinality(tokens) < MaxTokens
  /\ LET token == jwtSign([NoToken EXCEPT !.rootId = rootId, !.debtorName = debtorName,
                                         !.docTypes = docTypes, !.role = "debtor"],
                          env.PORTAL_JWT_SECRET, PORTAL_TTL, clock.now)
         status == IF rootId = 0 \/ debtorName = <<>> THEN 400
                   ELSE IF env.PORTAL_JWT_SECRET = "" THEN 500
                   ELSE IF env.PORTAL_URL_BASE = "" THEN 500
                   ELSE 200
     IN /\ resp' = [route |-> "issue-portal-link", status |-> status,
                    token |-> IF status = 200 THEN token ELSE NoToken]
        /\ tokens' = IF status = 200 THEN tokens \cup {token} ELSE tokens
  /\ UNCHANGED <<env, drive, cc, clock, sz, db, reg, cc2, mv>>

\* A request passes through requireDebtor (GET /portal/info answers from req.portal).
PortalInfo(req) ==
  /\ LET g == requireDebtor(req, clock.now)
     IN resp' = [route |-> "portal/info", req |-> req, at |-> clock.now, gate |-> g.status,
                 status |-> IF g.status = Next0 THEN 200 ELSE g.status,
                 body |-> [debtorName |-> g.portal.debtorName, docTypes |-> g.portal.docTypes,
                           rootId |-> g.portal.rootId, exp |-> g.portal.exp]]
  /\ UNCHANGED <<env, drive, cc, clock, tokens, sz, db, reg, cc2, mv>>

\* A request passes through reviewerOrDebtor.
ReviewerOrDebtor(req) ==
  /\ LET g == reviewerOrDebtor(req, clock.now)
     IN resp' = [route |-> "reviewerOrDebtor", req |-> req, at |-> clock.now,
                 gate |-> g.status, status |-> g.status, portal |-> g.portal]
  /\ UNCHANGED <<env, drive, cc, clock, tokens, sz, db, reg, cc2, mv>>

\* Tokens signed elsewhere: by the holder of either secret, or by nobody.
ForeignTokens ==
  {[NoToken EXCEPT !.key = k, !.role = r, !.scope = sc, !.exp = e, !.rootId = 3] :
     k \in {"s1", "s2", "forged"}, r \in {"reviewer", "debtor", "admin"},
     sc \in {NotAList, ScopeList(<<"preview">>), ScopeList(<<"upload", "list">>),
            ScopeList(<<"upload">>)},
     e \in {PORTAL_TTL}}

Presented == tokens \cup ForeignTokens

InitAuth ==
  /\ env \in {[Env0 EXCEPT !.PORTAL_JWT_SECRET = e[1], !.JWT_SECRET = e[2],
                           !.PORTAL_URL_BASE = e[3]] :
                e \in {<<"s1", "s1", "base">>, <<"s1", "s2", "base">>,
                       <<"s1", "s2", "">>, <<"", "s2", "base">>}}
  /\ drive = Drive0 /\ cc = CcIdle /\ resp = NoResp /\ sz = SzIdle
  /\ clock = Clock0 /\ tokens = {}
  /\ db = Db0 /\ reg = RegIdle /\ cc2 = CcIdle /\ mv = <<>>

NextAuth ==
  \/ \E d \in {1, PORTAL_TTL - 1} : Tick(d)
  \/ \E rootId \in {0, 3}, debtorName \in {<<>>, Lit(<<"T">>)},
        docTypes \in {<<Lit(<<"a">>)>>} :
       IssuePortalLink(rootId, debtorName, docTypes)
  \/ \E t \in {f \in Presented : f.scope = NotAList} \cup {NoToken} :
       PortalInfo(Req(t, NoToken))
  \/ \E t \in tokens : PortalInfo(Req(NoToken, t))
  \/ \E t \in Presented \cup {NoToken} : ReviewerOrDebtor(Req(t, NoToken))

SpecAuth == InitAuth /\ [][NextAuth]_vars

\* C3: a token POST /issue-portal-link has returned passes requireDebtor on every
\* request made before its expiry, whatever happened in between, and is answered
\* 401 on every request made after its expiry.
IssuedTokenLifetime ==
  resp.route = "portal/info" =>
    \A t \in tokens :
      (t \in {resp.req.hdr, resp.req.query} /\ (resp.req.hdr # NoToken => resp.req.hdr = t)) =>
        /\ resp.at < t.exp => resp.gate = Next0 /\ resp.status = 200
        /\ resp.at > t.exp => resp.gate = 401

\* An issued token has been accepted in the last second of its life, after other
\* tokens were issued and time passed.
IssuedTokenLifetimeWitness ==
  /\ resp.route = "portal/info"
  /\ resp.req.hdr \in tokens
  /\ resp.at = resp.req.hdr.exp - 1
  /\ Cardinality(tokens) >= 2
  /\ resp.gate = Next0

SignedFor(t, secret, at) ==
  secret # "" /\ t.key = secret /\ (t.exp # NoExp => at < t.exp)

\* C4: for a validly signed, unexpired token, requireDebtor lets the request
\* through exactly when the role is debtor (a reviewer is refused), and
\* reviewerOrDebtor lets every reviewer through, a debtor exactly when its scope
\* list holds preview or list, and answers 403 to everyone else.
GatePolicies ==
  /\ resp.route = "portal/info" =>
       LET t == IF resp.req.hdr # NoToken THEN resp.req.hdr ELSE resp.req.query
       IN SignedFor(t, env.PORTAL_JWT_SECRET, resp.at) =>
            /\ resp.gate = Next0 <=> t.role = "debtor"
            /\ t.role = "reviewer" => resp.gate = 403
  /\ resp.route = "reviewerOrDebtor" =>
       LET t == resp.req.hdr
           scoped == /\ t.scope.isArray
                     /\ \E i \in 1..Len(t.scope.items) : t.scope.items[i] \in {"preview", "list"}
       IN SignedFor(t, env.JWT_SECRET, resp.at) =>
            /\ t.role = "reviewer" => resp.gate = Next0
            /\ t.role = "debtor" => (resp.gate = Next0 <=> scoped)
            /\ resp.gate # Next0 => resp.gate = 403

\* The role-or-scope gate has refused a validly signed debtor token whose scope
\* list holds neither preview nor list.
GatePoliciesWitness ==
  /\ resp.route = "reviewerOrDebtor"
  /\ SignedFor(resp.req.hdr, env.JWT_SECRET, resp.at)
  /\ resp.req.hdr.role = "debtor" /\ resp.req.hdr.scope = ScopeList(<<"upload">>)
  /\ resp.gate = 403

----------------------------------------------------------------------------
(* Containment check and GET /files/preview/:fileId *)

MaxHops == 10

\* belongsToRoot with the walk started at hop i on file cur: whether it returned
\* true, whether a files.get threw (the id is unknown), and the files.get calls made.
RECURSIVE walkFirstParentOnly(_, _, _, _, _)
walkFirstParentOnly(d, cur, allowedRootId, i, calls) ==
  IF i >= MaxHops THEN [ok |-> FALSE, threw |-> FALSE, calls |-> calls]
  ELSE IF cur \notin Ids(d) THEN [ok |-> FALSE, threw |-> TRUE, calls |-> calls + 1]
  ELSE LET parents == d[cur].parents
       IN IF parents # <<>> /\ parents[1] = allowedRootId
          THEN [ok |-> TRUE, threw |-> FALSE, calls |-> calls + 1]
          ELSE IF parents = <<>> THEN [ok |-> FALSE, threw |-> FALSE, calls |-> calls + 1]
          ELSE walkFirstParentOnly(d, parents[1], allowedRootId, i + 1, calls + 1)

\* A containment check that compares the root with parents[0] alone.
belongsToRootFirstParentOnly(d, fileId, allowedRootId) ==
  IF allowedRootId = 0 THEN [ok |-> TRUE, threw |-> FALSE, calls |-> 0]
  ELSE walkFirstParentOnly(d, fileId, allowedRootId, 0, 0)

RECURSIVE walk(_, _, _, _, _)
walk(d, cur, allowedRootId, i, calls) ==
  IF i >= MaxHops THEN [ok |-> FALSE, threw |-> FALSE, calls |-> calls]
  ELSE IF cur \notin Ids(d) THEN [ok |-> FALSE, threw |-> TRUE, calls |-> calls + 1]
  ELSE LET parents == d[cur].parents
       IN IF allowedRootId \in Range(parents)
          THEN [ok |-> TRUE, threw |-> FALSE, calls |-> calls + 1]
          ELSE IF parents = <<>> THEN [ok |-> FALSE, threw |-> FALSE, calls |-> calls + 1]
          ELSE walk(d, parents[1], allowedRootId, i + 1, calls + 1)

belongsToRoot(d, fileId, allowedRootId) ==
  IF allowedRootId = 0 THEN [ok |-> TRUE, threw |-> FALSE, calls |-> 0]
  ELSE walk(d, fileId, allowedRootId, 0, 0)

\* The handler behind reviewerOrDebtor, the provider answering every call.
\* checked: what became of the containment check; streamed: whether the provider's
\* byte stream was opened.
previewFile(d, req, fileId, now) ==
  LET g == reviewerOrDebtor(req, now)
      allowedRootId == IF g.portal.rootId # 0 THEN g.portal.rootId
                       ELSE g.portal.debtorFolderId
      b == belongsToRoot(d, fileId, allowedRootId)
      out(status, checked, streamed) ==
        [route |-> "preview", req |-> req, fileId |-> fileId, gate |-> g.status,
         status |-> status, checked |-> checked, streamed |-> streamed]
  IN IF g.status # Next0 THEN out(g.status, "none", FALSE)
     ELSE IF allowedRootId # 0 /\ b.threw THEN out(404, "threw", FALSE)
     ELSE IF allowedRootId # 0 /\ ~b.ok THEN out(403, "failed", FALSE)
     ELSE LET checked == IF allowedRootId # 0 THEN "passed" ELSE "skipped"
          IN IF fileId \notin Ids(d) THEN out(404, checked, FALSE)
             ELSE IF env.PREVIEW_MAX_BYTES > 0 /\ d[fileId].size > env.PREVIEW_MAX_BYTES
                  THEN out(413, checked, FALSE)
                  ELSE out(200, checked, TRUE)

\* GET /files/preview/:fileId
Preview(req, fileId) ==
  /\ resp' = previewFile(drive, req, fileId, clock.now)
  /\ UNCHANGED <<env, drive, cc, clock, tokens, sz, db, reg, cc2, mv>>

\* GET /files/preview/:fileId when a provider call fails: the catch answers 502
\* and no stream reaches the caller.
PreviewProviderError(req, fileId) ==
  /\ LET r == previewFile(drive, req, fileId, clock.now)
     IN /\ r.gate = Next0
        /\ resp' = [r EXCEPT !.status = 502, !.streamed = FALSE,
                             !.checked = IF r.checked = "skipped" THEN "skipped" ELSE "threw"]
  /\ UNCHANGED <<env, drive, cc, clock, tokens, sz, db, reg, cc2, mv>>

\* belongsToRoot applied to a file and a root.
BelongsToRoot(fileId, allowedRootId) ==
  /\ resp' = [route |-> "belongsToRoot", fileId |-> fileId,
              allowedRootId |-> allowedRootId,
              result |-> belongsToRoot(drive, fileId, allowedRootId)]
  /\ UNCHANGED <<env, drive, cc, clock, tokens, sz, db, reg, cc2, mv>>

(* The drives of this part: two case roots R and R2 under the default parent,   *)
(* a status folder in each, a chain of depth nested folders under R's status    *)
(* folder, and files: one in R's status folder, one at the end of the chain,    *)
(* one in R2's status folder, one with R2's status folder as first and R's as   *)
(* second parent, one with an outside folder first and R itself second.         *)
MaxDepth == 10

RootR == 3
RootR2 == 4
StatusR == 5
StatusR2 == 6

FileOf(name, parents, size) == [Node(name, "application/pdf", parents) EXCEPT !.size = size]

CaseDrive(depth) ==
  LET base == Drive0 \o
              << Node(Lit(<<"r">>), FOLDER_MIME, <<DefaultParentId>>),
                 Node(Lit(<<"q">>), FOLDER_MIME, <<DefaultParentId>>),
                 Node(statusNames[1], FOLDER_MIME, <<RootR>>),
                 Node(statusNames[1], FOLDER_MIME, <<RootR2>>) >>
      chain == [i \in 1..depth |->
                  Node(Lit(<<"n">>), FOLDER_MIME, <<IF i = 1 THEN StatusR ELSE Len(base) + i - 1>>)]
      deepest == IF depth = 0 THEN StatusR ELSE Len(base) + depth
  IN base \o chain \o
     << FileOf(Lit(<<"f">>), <<StatusR>>, 1),
        FileOf(Lit(<<"g">>), <<deepest>>, 5),
        FileOf(Lit(<<"h">>), <<StatusR2>>, 1),
        FileOf(Lit(<<"i">>), <<StatusR2, StatusR>>, 1),
        FileOf(Lit(<<"j">>), <<DefaultParentId, RootR>>, 1) >>

FileIds(d) == {i \in Ids(d) : d[i].mime # FOLDER_MIME}
UnknownId == 99

PreviewTokens ==
  {[NoToken EXCEPT !.key = k, !.role = r, !.scope = sc, !.exp = PORTAL_TTL,
                   !.rootId = root, !.debtorFolderId = df] :
     k \in {"s2", "forged"}, r \in {"reviewer", "debtor"},
     sc \in {ScopeList(<<"preview">>), ScopeList(<<"upload">>)},
     root \in {0, RootR, RootR2}, df \in {0, RootR}}

InitPreview ==
  /\ env \in {[Env0 EXCEPT !.JWT_SECRET = "s2", !.PREVIEW_MAX_BYTES = m] : m \in {0, 3}}
  /\ drive \in {CaseDrive(depth) : depth \in 0..MaxDepth}
  /\ cc = CcIdle /\ resp = NoResp /\ sz = SzIdle /\ clock = Clock0 /\ tokens = {}
  /\ db = Db0 /\ reg = RegIdle /\ cc2 = CcIdle /\ mv = <<>>

NextPreview ==
  \/ \E t \in PreviewTokens \cup {NoToken}, f \in FileIds(drive) \cup {UnknownId} :
       Preview(Req(t, NoToken), f)
  \/ \E t \in PreviewTokens, f \in FileIds(drive) : PreviewProviderError(Req(t, NoToken), f)
  \/ \E f \in FileIds(drive), root \in {0, RootR, RootR2} : BelongsToRoot(f, root)

SpecPreview == InitPreview /\ [][NextPreview]_vars

\* C5: GET /files/preview/:fileId streams to a caller whose token has role debtor
\* only after the containment check has passed for the file, and a debtor request
\* for a file outside the token's case root is refused and opens no stream.
PreviewOnlyContained ==
  (resp.route = "preview" /\ resp.req.hdr.role = "debtor" /\ resp.streamed)
    => resp.checked = "passed"

\* The nodes a walk along parents[0] visits, the file first, at most k of them.
RECURSIVE Visited(_, _, _)
Visited(d, cur, k) ==
  IF k = 0 \/ cur \notin Ids(d) THEN <<>>
  ELSE <<cur>> \o (IF d[cur].parents = <<>> THEN <<>>
                   ELSE Visited(d, d[cur].parents[1], k - 1))

\* Every folder above a file, along all of its parents.
RECURSIVE Ancestors(_, _)
Ancestors(d, S) ==
  LET up == S \cup UNION {Range(d[i].parents) : i \in S \cap Ids(d)}
  IN IF up = S THEN S ELSE Ancestors(d, up)

\* C6: belongsToRoot with a non-empty root is true exactly when one of the at most
\* 10 nodes visited along parents[0] has the root among its parents: true for a
\* file directly inside a status folder of the root, false for a file that has
\* the root nowhere above it; with an absent root it is true without a provider call.
BelongsToRootWalk ==
  resp.route = "belongsToRoot" =>
    LET f == resp.fileId
        root == resp.allowedRootId
        res == resp.result
        seen == Visited(drive, f, MaxHops)
    IN IF root = 0 THEN res.ok /\ res.calls = 0
       ELSE /\ ~res.threw
            /\ res.ok <=> \E k \in 1..Len(seen) : root \in Range(drive[seen[k]].parents)
            /\ res.calls <= MaxHops
            /\ (\E s \in Ids(drive) : drive[f].parents = <<s>> /\ drive[s].parents = <<root>>)
                 => res.ok
            /\ root \notin Ancestors(drive, {f}) => ~res.ok

\* The walk gave up on a file that does lie under the root, after 10 hops.
BelongsToRootWalkWitness ==
  /\ resp.route = "belongsToRoot"
  /\ resp.allowedRootId = RootR
  /\ RootR \in Ancestors(drive, {resp.fileId})
  /\ ~resp.result.ok /\ resp.result.calls = MaxHops

----------------------------------------------------------------------------
(* GET /portal/structure, on the trees POST /create-case-folders leaves *)

\* The drive after a build of rootName with docTypes has answered 200, the
\* provider having served the folders in the order the handler issued them.
BuiltTree(d, rootName, docTypes) ==
  LET rootId == Len(d) + 1
      withRoot == FilesCreate(d, sanitize(rootName), FOLDER_MIME, <<DefaultParentId>>)
      withStatuses == withRoot \o [i \in 1..Len(statusNames) |->
                                     Node(sanitize(statusNames[i]), FOLDER_MIME, <<rootId>>)]
      docs == Flat([i \in 1..Len(statusNames) |->
                      [j \in 1..Len(docTypes) |->
                         Node(sanitize(docTypes[j]), FOLDER_MIME, <<rootId + i>>)]])
  IN withStatuses \o docs

\* A pending map that keeps only the folders named in the token's docTypes.
portalStructureIssued(d, portal, desc) ==
  LET statuses == listChildFolders(d, portal.rootId, desc)
      found == {i \in 1..Len(statuses) : statuses[i].name = statusNames[1]}
  IN IF found = {} THEN <<>>
     ELSE LET pending == statuses[CHOOSE i \in found : \A j \in found : i <= j]
              children == listChildFolders(d, pending.id, desc)
          IN FromEntries(MapSeq(SelectSeq(children,
                                          LAMBDA c : c.name \in Range(portal.docTypes)),
                                LAMBDA c : <<c.name, c.id>>))

\* The pending map of GET /portal/structure for the token payload portal.
portalStructure(d, portal, desc) ==
  LET statuses == listChildFolders(d, portal.rootId, desc)
      found == {i \in 1..Len(statuses) : statuses[i].name = statusNames[1]}
  IN IF found = {} THEN <<>>
     ELSE LET pending == statuses[CHOOSE i \in found : \A j \in found : i <= j]
              children == listChildFolders(d, pending.id, desc)
          IN FromEntries(MapSeq(children, LAMBDA c : <<c.name, c.id>>))

\* GET /portal/structure
PortalStructure(req) ==
  /\ LET g == requireDebtor(req, clock.now)
     IN IF g.status # Next0
        THEN resp' = [route |-> "portal/structure", req |-> req, gate |-> g.status,
                      status |-> g.status, pending |-> <<>>]
        ELSE \E desc \in BOOLEAN :
               resp' = [route |-> "portal/structure", req |-> req, gate |-> g.status,
                        status |-> 200, pending |-> portalStructure(drive, g.portal, desc)]
  /\ UNCHANGED <<env, drive, cc, clock, tokens, sz, db, reg, cc2, mv>>

\* GET /portal/structure when a listing fails: the catch answers 500.
PortalStructureProviderError(req) ==
  /\ requireDebtor(req, clock.now).status = Next0
  /\ resp' = [route |-> "portal/structure", req |-> req, gate |-> Next0,
              status |-> 500, pending |-> <<>>]
  /\ UNCHANGED <<env, drive, cc, clock, tokens, sz, db, reg, cc2, mv>>

InitPortal ==
  /\ env = [Env0 EXCEPT !.GOOGLE_DRIVE_PARENT_ID = DefaultParentId,
                        !.PORTAL_JWT_SECRET = "s1", !.PORTAL_URL_BASE = "base"]
  /\ drive \in {BuiltTree(Drive0, Lit(<<"r">>), docTypes) :
                  docTypes \in SeqsUpTo(DocTypeNames, MaxDocTypes)}
               \cup {FilesCreate(Drive0, Lit(<<"r">>), FOLDER_MIME, <<DefaultParentId>>)}
  /\ cc = CcIdle /\ resp = NoResp /\ sz = SzIdle /\ clock = Clock0 /\ tokens = {}
  /\ db = Db0 /\ reg = RegIdle /\ cc2 = CcIdle /\ mv = <<>>

NextPortal ==
  \/ \E debtorName \in {<<>>, Lit(<<"T">>)}, docTypes \in SeqsUpTo(DocTypeNames, MaxDocTypes) :
       IssuePortalLink(RootR, debtorName, docTypes)
  \/ \E t \in tokens \cup {NoToken} : PortalStructure(Req(t, NoToken))
  \/ \E t \in tokens : PortalStructureProviderError(Req(t, NoToken))

SpecPortal == InitPortal /\ [][NextPortal]_vars

\* The folders GET /portal/structure takes for the pending folder of a root.
PendingFolders(d, rootId) ==
  {i \in Ids(d) : /\ d[i].mime = FOLDER_MIME /\ rootId \in Range(d[i].parents)
                  /\ d[i].name = statusNames[1]}

IssuedStructure ==
  /\ resp.route = "portal/structure" /\ resp.status = 200 /\ resp.req.hdr \in tokens

\* C7 as stated: the keys of the pending map are exactly the docType labels
\* passed at issuance, each mapped to a child folder of the root's pending folder.
PendingKeysAreIssuedDocTypes ==
  IssuedStructure =>
    /\ DOMAIN resp.pending = Range(resp.req.hdr.docTypes)
    /\ \A k \in DOMAIN resp.pending :
         \E p \in PendingFolders(drive, resp.req.hdr.rootId) :
           p \in Range(drive[resp.pending[k]].parents)

\* C7: the keys of the pending map of GET /portal/structure are exactly the names
\* of the folders inside the root's folder named 01_提出物, whatever docTypes the
\* token was issued with, each mapped to the id of such a folder of that name; the
\* map is empty when the root has no folder of that name.
PendingKeysAreFolderNames ==
  IssuedStructure =>
    LET P == PendingFolders(drive, resp.req.hdr.rootId)
    IN IF P = {} THEN resp.pending = <<>>
       ELSE \E p \in P :
              LET kids == {i \in Ids(drive) : /\ drive[i].mime = FOLDER_MIME
                                              /\ p \in Range(drive[i].parents)}
              IN /\ DOMAIN resp.pending = {drive[i].name : i \in kids}
                 /\ \A k \in DOMAIN resp.pending :
                      resp.pending[k] \in kids /\ drive[resp.pending[k]].name = k

\* A token issued with one label has been answered with the folder of another.
PendingKeysAreFolderNamesWitness ==
  /\ IssuedStructure
  /\ resp.pending # <<>>
  /\ resp.req.hdr.docTypes # <<>>
  /\ DOMAIN resp.pending \cap Range(resp.req.hdr.docTypes) = {}

----------------------------------------------------------------------------
(* Case registry: POST /api/cases and GET /api/public/cases/:publicId.  db   *)
(* holds the committed rows; reg.tx the rows written inside the open         *)
(* transaction, which become visible at commit and vanish at rollback.       *)

MaxCases == 2
MaxDocs == 1

PublicIds == {"p1", "p2", "p3"}

\* req.body.debtorName: a string, or anything else.
Bodies ==
  {[isString |-> TRUE, val |-> "X"], [isString |-> TRUE, val |-> "Y"],
   [isString |-> FALSE, val |-> ""]}

CaseRow(id, debtorName) == [id |-> id, debtorName |-> debtorName, status |-> "open"]
LinkRow(id, caseId, publicId) ==
  [id |-> id, caseId |-> caseId, publicId |-> publicId, isActive |-> TRUE]

\* A case insert that commits on its own, outside the transaction.
caseCreateAutocommit(d, tx, debtorName) ==
  [db |-> [d EXCEPT !.caseSeq = @ + 1,
                    !.cases = @ \cup {CaseRow(d.caseSeq + 1, debtorName)}],
   tx |-> tx, id |-> d.caseSeq + 1]

\* tx.case.create({ data: { debtorName } }): the sequence advances for good, the
\* row stays inside the transaction.
txCaseCreate(d, tx, debtorName) ==
  [db |-> [d EXCEPT !.caseSeq = @ + 1],
   tx |-> [tx EXCEPT !.cases = @ \cup {CaseRow(d.caseSeq + 1, debtorName)}],
   id |-> d.caseSeq + 1]

\* The unique indexes and the foreign key of CasePublicLink let the row in.
LinkAdmitted(d, tx, caseId, publicId) ==
  /\ \A l \in d.links \cup tx.links : l.publicId # publicId /\ l.caseId # caseId
  /\ \E c \in d.cases \cup tx.cases : c.id = caseId

\* POST /api/cases up to the transaction's first statement.
ApiCases(body) ==
  /\ reg.pc = "idle" /\ db.caseSeq < MaxCases
  /\ reg' = [reg EXCEPT !.pc = "case",
                        !.debtorName = IF body.isString
                                       THEN [isNull |-> FALSE, val |-> body.val] ELSE Null,
                        !.tx = NoTx, !.publicId = "",
                        !.before = [cases |-> db.cases, links |-> db.links]]
  /\ resp' = NoResp
  /\ UNCHANGED <<env, drive, cc, clock, tokens, sz, db, cc2, mv>>

TxCaseCreate ==
  /\ reg.pc = "case"
  /\ LET r == txCaseCreate(db, reg.tx, reg.debtorName)
     IN /\ db' = r.db
        /\ reg' = [reg EXCEPT !.pc = "link", !.tx = r.tx]
  /\ UNCHANGED <<env, drive, cc, resp, clock, tokens, sz, cc2, mv>>

Rollback(cause) ==
  /\ reg' = [reg EXCEPT !.pc = "idle", !.tx = NoTx]
  /\ resp' = [route |-> "api/cases", status |-> 500, cause |-> cause]

\* nanoid() and tx.casePublicLink.create: a publicId some link already has
\* violates the unique index, the transaction rolls back and the catch answers 500.
TxLinkCreate(publicId) ==
  /\ reg.pc = "link"
  /\ LET caseId == db.caseSeq
     IN IF LinkAdmitted(db, reg.tx, caseId, publicId)
        THEN /\ db' = [db EXCEPT !.linkSeq = @ + 1]
             /\ reg' = [reg EXCEPT !.pc = "commit", !.publicId = publicId,
                                   !.tx.links = @ \cup {LinkRow(db.linkSeq + 1, caseId, publicId)}]
             /\ UNCHANGED resp
        ELSE /\ db' = [db EXCEPT !.linkSeq = @ + 1]
             /\ Rollback("unique")
  /\ UNCHANGED <<env, drive, cc, clock, tokens, sz, cc2, mv>>

\* The transaction commits and the handler answers caseId and publicUrl.
TxCommit ==
  /\ reg.pc = "commit"
  /\ db' = [db EXCEPT !.cases = @ \cup reg.tx.cases, !.links = @ \cup reg.tx.links]
  /\ resp' = [route |-> "api/cases", status |-> 200, caseId |-> db.caseSeq,
              publicId |-> reg.publicId]
  /\ reg' = [reg EXCEPT !.pc = "idle", !.tx = NoTx,
                        !.answered = @ \cup {[caseId |-> db.caseSeq, publicId |-> reg.publicId,
                                              debtorName |-> reg.debtorName]}]
  /\ UNCHANGED <<env, drive, cc, clock, tokens, sz, cc2, mv>>

\* A statement or the commit fails (connection lost, transaction timed out).
TxFail ==
  /\ reg.pc \in {"case", "link", "commit"}
  /\ Rollback("db")
  /\ UNCHANGED <<env, drive, cc, clock, tokens, sz, db, cc2, mv>>

\* A lookup that does not look at isActive.
publicCaseAnyLink(d, publicId) ==
  LET found == {l \in d.links : l.publicId = publicId}
  IN IF found = {}
     THEN [status |-> 404, debtorName |-> Null, caseStatus |-> "", documents |-> {}]
     ELSE LET link == CHOOSE l \in found : TRUE
              c == CHOOSE c \in d.cases : c.id = link.caseId
          IN [status |-> 200, debtorName |-> c.debtorName, caseStatus |-> c.status,
              documents |-> {doc \in d.documents : doc.caseId = c.id}]

\* findUnique({ where: { publicId }, include: { case: { include: { documents } } } })
\* and the answer built from it.
publicCase(d, publicId) ==
  LET found == {l \in d.links : l.publicId = publicId}
  IN IF found = {} \/ \E l \in found : ~l.isActive
     THEN [status |-> 404, debtorName |-> Null, caseStatus |-> "", documents |-> {}]
     ELSE LET link == CHOOSE l \in found : TRUE
              c == CHOOSE c \in d.cases : c.id = link.caseId
          IN [status |-> 200, debtorName |-> c.debtorName, caseStatus |-> c.status,
              documents |-> {doc \in d.documents : doc.caseId = c.id}]

\* GET /api/public/cases/:publicId
PublicCase(publicId) ==
  /\ resp' = [route |-> "public/cases", publicId |-> publicId,
              body |-> publicCase(db, publicId),
              status |-> publicCase(db, publicId).status]
  /\ UNCHANGED <<env, drive, cc, clock, tokens, sz, db, reg, cc2, mv>>

\* GET /api/public/cases/:publicId when the query fails: the catch answers 500.
PublicCaseDbError(publicId) ==
  /\ resp' = [route |-> "public/cases", publicId |-> publicId,
              body |-> [status |-> 500, debtorName |-> Null, caseStatus |-> "",
                        documents |-> {}],
              status |-> 500]
  /\ UNCHANGED <<env, drive, cc, clock, tokens, sz, db, reg, cc2, mv>>

\* A collaborator outside this service deactivates a link.
Deactivate(linkId) ==
  /\ \E l \in db.links : l.id = linkId /\ l.isActive
  /\ db' = [db EXCEPT !.links = {IF l.id = linkId THEN [l EXCEPT !.isActive = FALSE] ELSE l :
                                   l \in @}]
  /\ resp' = NoResp
  /\ UNCHANGED <<env, drive, cc, clock, tokens, sz, reg, cc2, mv>>

\* A collaborator outside this service records a document of a case.
AddDocument(caseId) ==
  /\ db.docSeq < MaxDocs
  /\ \E c \in db.cases : c.id = caseId
  /\ db' = [db EXCEPT !.docSeq = @ + 1,
                      !.documents = @ \cup {[id |-> db.docSeq + 1, caseId |-> caseId,
                                             docType |-> "a", status |-> "submitted"]}]
  /\ resp' = NoResp
  /\ UNCHANGED <<env, drive, cc, clock, tokens, sz, reg, cc2, mv>>

InitRegistry ==
  /\ env = Env0 /\ drive = Drive0 /\ cc = CcIdle /\ resp = NoResp /\ sz = SzIdle
  /\ clock = Clock0 /\ tokens = {}
  /\ db = Db0 /\ reg = RegIdle /\ cc2 = CcIdle /\ mv = <<>>

NextRegistry ==
  \/ \E body \in Bodies : ApiCases(body)
  \/ TxCaseCreate
  \/ \E publicId \in PublicIds : TxLinkCreate(publicId)
  \/ TxCommit
  \/ TxFail
  \/ \E publicId \in PublicIds : PublicCase(publicId)
  \/ \E publicId \in PublicIds : PublicCaseDbError(publicId)
  \/ \E l \in db.links : Deactivate(l.id)
  \/ \E c \in db.cases : AddDocument(c.id)

SpecRegistry == InitRegistry /\ [][NextRegistry]_vars

\* C8: GET /api/public/cases/:publicId with the public id a successful
\* POST /api/cases with debtorName X returned answers 200 with case.debtorName X,
\* and with no documents while none was recorded for the case; with a public id
\* no link has, or whose link is not active, it answers 404.
PublicLookup ==
  (resp.route = "public/cases" /\ resp.status # 500) =>
    LET links == {l \in db.links : l.publicId = resp.publicId}
    IN /\ \A a \in reg.answered :
            (a.publicId = resp.publicId /\ \E l \in links : l.isActive) =>
              /\ resp.status = 200
              /\ resp.body.debtorName = a.debtorName
              /\ resp.body.documents = {doc \in db.documents : doc.caseId = a.caseId}
       /\ (links = {} \/ \E l \in links : ~l.isActive) => resp.status = 404

\* The second of two cases has been looked up by its public id.
PublicLookupWitness ==
  /\ resp.route = "public/cases" /\ resp.status = 200
  /\ resp.body.debtorName = [isNull |-> FALSE, val |-> "X"]
  /\ resp.body.documents = {}
  /\ Cardinality(db.cases) = 2
  /\ \E l \in db.links : ~l.isActive

\* C9: every committed Case row has exactly one CasePublicLink row and every
\* CasePublicLink row refers to a committed Case, at every moment; and a
\* POST /api/cases that answered 500 has left both tables as it found them.
CaseLinkAtomic ==
  /\ \A c \in db.cases : Cardinality({l \in db.links : l.caseId = c.id}) = 1
  /\ \A l \in db.links : \E c \in db.cases : c.id = l.caseId
  /\ (resp.route = "api/cases" /\ resp.status = 500 /\ reg.pc = "idle") =>
       /\ {c.id : c \in db.cases} = {c.id : c \in reg.before.cases}
       /\ {l.id : l \in db.links} = {l.id : l \in reg.before.links}

\* A call has failed on a publicId collision after its Case row was written.
CaseLinkAtomicWitness ==
  /\ resp.route = "api/cases" /\ resp.status = 500 /\ resp.cause = "unique"
  /\ reg.pc = "idle"
  /\ db.cases # {} /\ db.caseSeq > Cardinality(db.cases)

----------------------------------------------------------------------------
(* The gateway's other routes: uploads, listing, moves, comments.  A handler  *)
(* that awaits its provider calls one after the other, with nothing of its    *)
(* own to interleave with, is one step; calls counts the provider calls it    *)
(* issued, and outcome says which of them, if any, the provider refused.      *)

Concat(ss) == Norm(Flat(ss))

\* new Date().toISOString().replace(/[:-]/g, '').slice(0, 15): YYYYMMDDTHHMMSS,
\* d standing for a digit.
Stamp(now) == <<R("d", 8), R("T", 1), R("d", 6)>>

\* Buffer.from(s, 'latin1').toString('utf8') over the code units 0xC3 and 0xA9
\* and the ASCII ones: C3 A9 decodes to U+00E9, a lone C3 or A9 to U+FFFD.
RECURSIVE latin1ToUtf8(_)
latin1ToUtf8(s) ==
  IF s = <<>> THEN <<>>
  ELSE LET h == Head(s)
       IN IF h.ch = "xC3" /\ Len(s) >= 2 /\ s[2].ch = "xA9"
          THEN <<R("uFFFD", h.n - 1), R("u00E9", 1)>>
               \o latin1ToUtf8(<<R("xA9", s[2].n - 1)>> \o SubSeq(s, 3, Len(s)))
          ELSE IF h.ch \in {"xC3", "xA9"}
               THEN <<R("uFFFD", h.n)>> \o latin1ToUtf8(Tail(s))
               ELSE <<h>> \o latin1ToUtf8(Tail(s))

NoFile == [present |-> FALSE, originalname |-> <<>>]
File(originalname) == [present |-> TRUE, originalname |-> originalname]

\* drive.files.update({ fileId, addParents, removeParents }): the parents named
\* in removeParents go, the one named in addParents comes.
FilesUpdateParents(d, fileId, addParents, removeParents) ==
  LET kept == SelectSeq(d[fileId].parents, LAMBDA q : q \notin Range(removeParents))
  IN [d EXCEPT ![fileId].parents =
        IF addParents \in Range(kept) THEN kept ELSE Append(kept, addParents)]

\* A stored name that carries prefix and timestamp whether or not a prefix came.
uploadNameStamped(namePrefix, now, originalname) ==
  Concat(<<sanitize(namePrefix), Lit(<<"_">>), Stamp(now), Lit(<<"_">>),
           sanitize(Norm(latin1ToUtf8(originalname)))>>)

\* safeOriginal and finalName of POST /upload-to-folder.
uploadName(namePrefix, now, originalname) ==
  LET safeOriginal == sanitize(Norm(latin1ToUtf8(originalname)))
  IN IF namePrefix # <<>>
     THEN Concat(<<sanitize(namePrefix), Lit(<<"_">>), Stamp(now), Lit(<<"_">>),
                   safeOriginal>>)
     ELSE safeOriginal

UploadMime == "application/pdf"

\* An upload handler that stores the file before it looks at folderId.
uploadToFolderStoreFirst(d, file, folderId, namePrefix, now, outcome) ==
  LET out(status, calls, created) ==
        [route |-> "upload-to-folder", status |-> status, calls |-> calls,
         created |-> created, file |-> file, folderId |-> folderId,
         namePrefix |-> namePrefix]
      parents == IF folderId = 0 THEN <<>> ELSE <<folderId>>
      stored == FilesCreate(d, uploadName(namePrefix, now, file.originalname),
                            UploadMime, parents)
  IN IF ~file.present THEN [drive |-> d, resp |-> out(400, 0, 0)]
     ELSE IF ~CanCreate(d, parents) THEN [drive |-> d, resp |-> out(500, 1, 0)]
     ELSE IF folderId = 0 THEN [drive |-> stored, resp |-> out(400, 1, Len(d) + 1)]
     ELSE [drive |-> PermissionsCreate(stored, Len(d) + 1),
           resp |-> out(200, 2, Len(d) + 1)]

\* POST /upload-to-folder
uploadToFolder(d, file, folderId, namePrefix, now, outcome) ==
  LET out(status, calls, created) ==
        [route |-> "upload-to-folder", status |-> status, calls |-> calls,
         created |-> created, file |-> file, folderId |-> folderId,
         namePrefix |-> namePrefix]
      stored == FilesCreate(d, uploadName(namePrefix, now, file.originalname),
                            UploadMime, <<folderId>>)
  IN IF ~file.present THEN [drive |-> d, resp |-> out(400, 0, 0)]
     ELSE IF folderId = 0 THEN [drive |-> d, resp |-> out(400, 0, 0)]
     ELSE IF outcome = "createFails" \/ ~CanCreate(d, <<folderId>>)
          THEN [drive |-> d, resp |-> out(500, 1, 0)]
     ELSE IF outcome = "grantFails"
          THEN [drive |-> stored, resp |-> out(500, 2, Len(d) + 1)]
     ELSE [drive |-> PermissionsCreate(stored, Len(d) + 1),
           resp |-> out(200, 2, Len(d) + 1)]

MaxUploads == 1

Uploaded(d) == {i \in Ids(d) : d[i].mime = UploadMime}

UploadToFolder(file, folderId, namePrefix, outcome) ==
  /\ LET r == uploadToFolder(drive, file, folderId, namePrefix, clock.now, outcome)
     IN /\ r.drive = drive \/ Cardinality(Uploaded(drive)) < MaxUploads
        /\ drive' = r.drive /\ resp' = r.resp
  /\ UNCHANGED <<env, cc, clock, tokens, sz, db, reg, cc2, mv>>

FilesPageSize == 50

\* GET /files-in-folder
FilesInFolder(folderId, outcome) ==
  /\ resp' = IF folderId = 0
             THEN [route |-> "files-in-folder", status |-> 400, calls |-> 0,
                   folderId |-> folderId, files |-> <<>>]
             ELSE IF outcome = "listFails"
             THEN [route |-> "files-in-folder", status |-> 500, calls |-> 1,
                   folderId |-> folderId, files |-> <<>>]
             ELSE [route |-> "files-in-folder", status |-> 200, calls |-> 1,
                   folderId |-> folderId,
                   files |-> FilesList(drive, folderId, FALSE, TRUE, FilesPageSize)]
  /\ UNCHANGED <<env, drive, cc, clock, tokens, sz, db, reg, cc2, mv>>

\* POST /move-file
MoveFile(fileId, sourceFolderId, destinationFolderId, outcome) ==
  /\ LET out(status, calls) ==
           [route |-> "move-file", status |-> status, calls |-> calls,
            fileId |-> fileId, sourceFolderId |-> sourceFolderId,
            destinationFolderId |-> destinationFolderId]
     IN IF fileId = 0 \/ sourceFolderId = 0 \/ destinationFolderId = 0
        THEN resp' = out(400, 0) /\ UNCHANGED drive
        ELSE IF outcome = "updateFails" \/ {fileId, destinationFolderId} \ Ids(drive) # {}
             THEN resp' = out(500, 1) /\ UNCHANGED drive
             ELSE /\ resp' = out(200, 1)
                  /\ drive' = FilesUpdateParents(drive, fileId, destinationFolderId,
                                                 <<sourceFolderId>>)
  /\ UNCHANGED <<env, cc, clock, tokens, sz, db, reg, cc2, mv>>

\* POST /comment: the message becomes the file's description.
Comment(fileId, message, outcome) ==
  /\ LET out(status, calls) ==
           [route |-> "comment", status |-> status, calls |-> calls,
            fileId |-> fileId, message |-> message]
     IN IF fileId = 0 \/ message = <<>>
        THEN resp' = out(400, 0) /\ UNCHANGED drive
        ELSE IF outcome = "updateFails" \/ fileId \notin Ids(drive)
             THEN resp' = out(500, 1) /\ UNCHANGED drive
             ELSE /\ resp' = out(200, 1)
                  /\ drive' = [drive EXCEPT ![fileId].description = message]
  /\ UNCHANGED <<env, cc, clock, tokens, sz, db, reg, cc2, mv>>

\* A lookup that takes the first listed folder whatever its name.
FindAnyIndex(list, name) == {i \in 1..Len(list) : TRUE}

\* list.find((f) => f.name === name): the positions that match; find takes the least.
FindIndex(list, name) == {i \in 1..Len(list) : list[i].name = name}

\* POST /portal/upload behind requireDebtor and upload.single('file').
portalUpload(d, req, file, docType, now, desc, outcome) ==
  LET g == requireDebtor(req, now)
      out(status, calls, folder, created, granted) ==
        [route |-> "portal/upload", status |-> status, calls |-> calls, gate |-> g.status,
         req |-> req, file |-> file, docType |-> docType, folder |-> folder,
         created |-> created, granted |-> granted]
      statuses == listChildFolders(d, g.portal.rootId, desc)
      foundS == FindIndex(statuses, statusNames[1])
      pending == statuses[CHOOSE i \in foundS : \A j \in foundS : i <= j]
      children == listChildFolders(d, pending.id, desc)
      foundC == FindIndex(children, docType)
      folder == children[CHOOSE i \in foundC : \A j \in foundC : i <= j]
      safeName == sanitize(Norm(latin1ToUtf8(file.originalname)))
      finalName == Concat(<<docType, Lit(<<"_">>), Stamp(now), Lit(<<"_">>), safeName>>)
      stored == FilesCreate(d, finalName, UploadMime, <<folder.id>>)
  IN IF g.status # Next0 THEN [drive |-> d, resp |-> out(g.status, 0, 0, 0, FALSE)]
     ELSE IF ~file.present THEN [drive |-> d, resp |-> out(400, 0, 0, 0, FALSE)]
     ELSE IF docType = <<>> THEN [drive |-> d, resp |-> out(400, 0, 0, 0, FALSE)]
     ELSE IF outcome = "listFails" THEN [drive |-> d, resp |-> out(500, 1, 0, 0, FALSE)]
     ELSE IF foundS = {} THEN [drive |-> d, resp |-> out(400, 1, 0, 0, FALSE)]
     ELSE IF foundC = {} THEN [drive |-> d, resp |-> out(400, 2, 0, 0, FALSE)]
     ELSE IF outcome = "createFails"
          THEN [drive |-> d, resp |-> out(500, 3, folder.id, 0, FALSE)]
     ELSE IF outcome = "grantFails"
          THEN [drive |-> stored, resp |-> out(500, 4, folder.id, Len(d) + 1, FALSE)]
     ELSE [drive |-> PermissionsCreate(stored, Len(d) + 1),
           resp |-> out(200, 4, folder.id, Len(d) + 1, TRUE)]

PortalUpload(req, file, docType, outcome) ==
  /\ \E desc \in BOOLEAN :
       LET r == portalUpload(drive, req, file, docType, clock.now, desc, outcome)
       IN /\ r.drive = drive \/ Cardinality(Uploaded(drive)) < MaxUploads
          /\ drive' = r.drive /\ resp' = r.resp
  /\ UNCHANGED <<env, cc, clock, tokens, sz, db, reg, cc2, mv>>

(* POST /move-file-smart reads the file's parents and then reparents it; other *)
(* requests can be served between the two provider calls.                      *)

MaxMoves == 2

\* The handler up to its first await.
MoveFileSmart(fileId, destinationFolderId) ==
  /\ Len(mv) < MaxMoves
  /\ mv' = Append(mv, [fileId |-> fileId, destinationFolderId |-> destinationFolderId,
                       pc |-> IF fileId = 0 \/ destinationFolderId = 0 THEN "done" ELSE "get",
                       status |-> IF fileId = 0 \/ destinationFolderId = 0 THEN 400 ELSE 0,
                       calls |-> 0, currentParents |-> <<>>, at |-> 0])
  /\ UNCHANGED <<env, drive, cc, resp, clock, tokens, sz, db, reg, cc2>>

\* drive.files.get({ fileId, fields: 'id, name, parents, webViewLink' }) is served.
MvGet(k) ==
  /\ mv[k].pc = "get" /\ mv[k].fileId \in Ids(drive)
  /\ mv' = [mv EXCEPT ![k].pc = "update", ![k].calls = 1,
                      ![k].currentParents = drive[mv[k].fileId].parents]
  /\ UNCHANGED <<env, drive, cc, resp, clock, tokens, sz, db, reg, cc2>>

\* drive.files.update({ fileId, addParents, removeParents: currentParents }) is
\* served and the handler answers 200; at is the order of the applied updates.
MvUpdate(k) ==
  /\ mv[k].pc = "update" /\ mv[k].destinationFolderId \in Ids(drive)
  /\ drive' = FilesUpdateParents(drive, mv[k].fileId, mv[k].destinationFolderId,
                                 mv[k].currentParents)
  /\ mv' = [mv EXCEPT ![k].pc = "done", ![k].status = 200, ![k].calls = 2,
                      ![k].at = 1 + Cardinality({j \in 1..Len(mv) : mv[j].status = 200})]
  /\ UNCHANGED <<env, cc, resp, clock, tokens, sz, db, reg, cc2>>

\* The provider call the handler awaits fails: the catch answers 500.
MvFail(k) ==
  /\ mv[k].pc \in {"get", "update"}
  /\ mv' = [mv EXCEPT ![k].pc = "done", ![k].status = 500, ![k].calls = @ + 1]
  /\ UNCHANGED <<env, drive, cc, resp, clock, tokens, sz, db, reg, cc2>>

\* The folder of docType a under 01_提出物 in the tree of InitGateway, and the
\* folders of the same docType under the two other status folders.
GwFolder == RootR + 4
GwApproved == RootR + 5
GwRejected == RootR + 6

GwFiles == {NoFile, File(Lit(<<"xC3", "xA9", "/">>))}
GwPrefixes == {<<>>, Lit(<<"p">>), Lit(<<"/">>)}

InitGateway ==
  /\ env = [Env0 EXCEPT !.GOOGLE_DRIVE_PARENT_ID = DefaultParentId,
                        !.PORTAL_JWT_SECRET = "s1", !.PORTAL_URL_BASE = "base"]
  /\ drive = BuiltTree(Drive0, Lit(<<"r">>), <<Lit(<<"a">>)>>)
  /\ cc = CcIdle /\ resp = NoResp /\ sz = SzIdle /\ clock = Clock0 /\ tokens = {}
  /\ db = Db0 /\ reg = RegIdle /\ cc2 = CcIdle /\ mv = <<>>

\* Every route that validates its request, each required field present or
\* absent.  The two handlers of several steps are given the requests that lack a
\* field, which they answer in their first step; their further steps are those
\* of SpecTree and SpecMove.
NextGateway ==
  \/ CreateCaseFolders(<<>>, <<>>, 0)
  \/ \E rootId \in {0, RootR} : CaseStructure(rootId)
  \/ IssuePortalLink(RootR, Lit(<<"T">>), <<>>)
  \/ \E file \in {NoFile, File(Lit(<<"a">>))}, folderId \in {0, GwFolder},
        outcome \in {"ok", "createFails"} :
       UploadToFolder(file, folderId, <<>>, outcome)
  \/ \E folderId \in {0, GwFolder}, outcome \in {"ok", "listFails"} :
       FilesInFolder(folderId, outcome)
  \/ \E fileId \in {0} \cup Uploaded(drive), sourceFolderId \in {0, GwFolder},
        destinationFolderId \in {0, GwApproved}, outcome \in {"ok", "updateFails"} :
       MoveFile(fileId, sourceFolderId, destinationFolderId, outcome)
  \/ \E req \in {<<0, GwRejected>>, <<UnknownId, 0>>} : MoveFileSmart(req[1], req[2])
  \/ \E fileId \in {0, GwFolder}, message \in {<<>>, Lit(<<"m">>)},
        outcome \in {"ok", "updateFails"} :
       Comment(fileId, message, outcome)
  \/ \E t \in tokens \cup {NoToken}, file \in {NoFile, File(Lit(<<"a">>))},
        docType \in {<<>>, Lit(<<"a">>)}, outcome \in {"ok", "listFails"} :
       PortalUpload(Req(t, NoToken), file, docType, outcome)

SpecGateway == InitGateway /\ [][NextGateway]_vars

\* Whether the request an answer belongs to lacked a field its route requires.
LacksField(r) ==
  CASE r.route = "case-structure" -> r.rootId = 0
    [] r.route = "upload-to-folder" -> ~r.file.present \/ r.folderId = 0
    [] r.route = "files-in-folder" -> r.folderId = 0
    [] r.route = "move-file" ->
         r.fileId = 0 \/ r.sourceFolderId = 0 \/ r.destinationFolderId = 0
    [] r.route = "comment" -> r.fileId = 0 \/ r.message = <<>>
    [] r.route = "portal/upload" -> ~r.file.present \/ r.docType = <<>>
    [] OTHER -> FALSE

\* C11: on each of the eight routes a request that lacks a required field is
\* answered 400 in a step that issues no provider call and leaves the provider's
\* files as they were (on POST /portal/upload the token gate comes first and may
\* answer 401 or 403 instead, also without a provider call).
ValidationFirst ==
  [][ /\ (resp' # resp /\ LacksField(resp')) =>
           /\ resp'.calls = 0 /\ drive' = drive
           /\ \/ resp'.status = 400
              \/ /\ resp'.route = "portal/upload"
                 /\ resp'.gate # Next0 /\ resp'.status = resp'.gate
      /\ (cc.pc = "idle" /\ cc'.pc # "idle" /\ cc'.rootName = <<>>) =>
           cc'.status = 400 /\ cc'.tasks = <<>> /\ drive' = drive
      /\ (Len(mv') > Len(mv)
          /\ (mv'[Len(mv')].fileId = 0 \/ mv'[Len(mv')].destinationFolderId = 0)) =>
           /\ mv'[Len(mv')].status = 400 /\ mv'[Len(mv')].calls = 0
           /\ mv'[Len(mv')].pc = "done" /\ drive' = drive ]_vars

\* POST /portal/upload with a valid token and no docType has been refused after an
\* upload was stored, and the builder and the smart move have refused a request.
ValidationFirstWitness ==
  /\ resp.route = "portal/upload" /\ resp.gate = Next0 /\ resp.file.present
  /\ resp.status = 400 /\ resp.calls = 0
  /\ Uploaded(drive) # {}
  /\ cc.status = 400
  /\ mv # <<>>

(***************************************************************************)
(* The two upload routes on a tree the builder made.                       *)
(***************************************************************************)
GwDocTypes == {<<>>, Lit(<<"a">>), Lit(<<"b">>)}

InitUpload == InitGateway

NextUpload ==
  \/ \E rootId \in {RootR, DefaultParentId} : IssuePortalLink(rootId, Lit(<<"T">>), <<>>)
  \/ \E file \in GwFiles, folderId \in {0, GwFolder}, namePrefix \in GwPrefixes,
        outcome \in {"ok", "createFails", "grantFails"} :
       UploadToFolder(file, folderId, namePrefix, outcome)
  \/ \E t \in tokens \cup {NoToken}, file \in GwFiles, docType \in GwDocTypes,
        outcome \in {"ok", "listFails", "createFails", "grantFails"} :
       PortalUpload(Req(t, NoToken), file, docType, outcome)

SpecUpload == InitUpload /\ [][NextUpload]_vars

\* The file the last answered POST /upload-to-folder stored, if it stored one.
StoredByUpload == resp.route = "upload-to-folder" /\ resp.created # 0

\* Whether a name holds the 15 characters of a timestamp, YYYYMMDDTHHMMSS.
HasTimestamp(name) ==
  \E i \in 1..(Len(name) - 2) :
    /\ name[i].ch = "d" /\ name[i].n >= 8
    /\ name[i + 1] = R("T", 1)
    /\ name[i + 2].ch = "d" /\ name[i + 2].n >= 6

\* C13: a file stored by POST /upload-to-folder with a non-empty namePrefix is
\* named sanitize(namePrefix), "_", timestamp, "_", sanitized original name; a file
\* stored without namePrefix (absent or empty) is named by the sanitized original
\* name alone, with neither prefix nor timestamp.
UploadNameByPrefix ==
  StoredByUpload =>
    LET name == drive[resp.created].name
        safeOriginal == sanitize(Norm(latin1ToUtf8(resp.file.originalname)))
    IN IF resp.namePrefix # <<>>
       THEN /\ name = Norm(sanitize(resp.namePrefix) \o Lit(<<"_">>) \o Stamp(clock.now)
                           \o Lit(<<"_">>) \o safeOriginal)
            /\ HasTimestamp(name)
       ELSE name = safeOriginal /\ ~HasTimestamp(name)

\* Files have been stored both ways: this one without namePrefix, under a name
\* whose latin1 bytes were decoded and whose unsafe character was removed.
UploadNameByPrefixWitness ==
  /\ StoredByUpload /\ resp.status = 200
  /\ resp.namePrefix = <<>>
  /\ resp.file.originalname = Lit(<<"xC3", "xA9", "/">>)
  /\ drive[resp.created].name = Lit(<<"u00E9">>)
  /\ drive[resp.created].parents = <<GwFolder>>

\* C13 as stated: every file stored by POST /upload-to-folder carries the
\* timestamp in its name, with the prefix and an underscore before it exactly
\* when namePrefix was supplied.
UploadNameAlwaysStamped ==
  StoredByUpload =>
    LET name == drive[resp.created].name
        safeOriginal == sanitize(Norm(latin1ToUtf8(resp.file.originalname)))
    IN /\ HasTimestamp(name)
       /\ name = Norm((IF resp.namePrefix # <<>>
                       THEN sanitize(resp.namePrefix) \o Lit(<<"_">>) ELSE <<>>)
                      \o Stamp(clock.now) \o Lit(<<"_">>) \o safeOriginal)

\* The folders named docType inside a folder named 01_提出物 inside root.
DocTypeFoldersOf(root, docType) ==
  {f \in Ids(drive) :
     /\ drive[f].mime = FOLDER_MIME /\ drive[f].name = docType
     /\ \E p \in Range(drive[f].parents) :
          /\ drive[p].mime = FOLDER_MIME /\ drive[p].name = statusNames[1]
          /\ root \in Range(drive[p].parents)}

\* An answer of POST /portal/upload to a request that passed the token gate and
\* carried a file and a docType, the listing not having failed.
PortalUploadHandled ==
  /\ resp.route = "portal/upload" /\ resp.gate = Next0
  /\ resp.file.present /\ resp.docType # <<>>

\* C19: a file created by POST /portal/upload with a valid debtor token for root R
\* has one parent, a folder named docType inside the folder 01_提出物 of R; when R
\* has no such folder the answer is 400 (500 if the provider failed) and the step
\* creates no file and grants nothing.
PortalUploadPlacement ==
  /\ [](PortalUploadHandled =>
         LET R0 == requireDebtor(resp.req, clock.now).portal.rootId
         IN /\ resp.created # 0 =>
                 /\ Len(drive[resp.created].parents) = 1
                 /\ drive[resp.created].parents[1] \in DocTypeFoldersOf(R0, resp.docType)
                 /\ drive[resp.created].mime = UploadMime
            /\ DocTypeFoldersOf(R0, resp.docType) = {} =>
                 /\ resp.status \in {400, 500}
                 /\ resp.created = 0 /\ ~resp.granted)
  /\ [][(resp' # resp /\ resp'.route = "portal/upload" /\ resp'.status = 400)
          => drive' = drive]_vars

\* A debtor's upload of docType a has been stored in the pending folder's a, while
\* folders named a exist under the other status folders too.
PortalUploadPlacementWitness ==
  /\ PortalUploadHandled /\ resp.status = 200 /\ resp.granted
  /\ drive[resp.created].parents = <<GwFolder>>
  /\ drive[resp.created].grants = 1
  /\ drive[GwApproved].name = resp.docType /\ drive[GwRejected].name = resp.docType

(***************************************************************************)
(* POST /move-file-smart: requests in progress at the same time on one     *)
(* file of a tree the builder made.                                        *)
(***************************************************************************)
MvFile == RootR + 7

InitMove ==
  /\ env = [Env0 EXCEPT !.GOOGLE_DRIVE_PARENT_ID = DefaultParentId]
  /\ drive = FilesCreate(BuiltTree(Drive0, Lit(<<"r">>), <<Lit(<<"a">>)>>),
                         Lit(<<"f">>), UploadMime, <<GwFolder>>)
  /\ cc = CcIdle /\ resp = NoResp /\ sz = SzIdle /\ clock = Clock0 /\ tokens = {}
  /\ db = Db0 /\ reg = RegIdle /\ cc2 = CcIdle /\ mv = <<>>

NextMove ==
  \/ \E fileId \in {0, MvFile}, destinationFolderId \in {0, GwFolder, GwApproved, GwRejected} :
       MoveFileSmart(fileId, destinationFolderId)
  \/ \E k \in 1..Len(mv) : MvGet(k) \/ MvUpdate(k) \/ MvFail(k)

SpecMove == InitMove /\ [][NextMove]_vars

\* The requests answered 200, and the one whose reparent was applied last.
MovesApplied == {k \in 1..Len(mv) : mv[k].status = 200}
LastApplied == CHOOSE k \in MovesApplied : \A j \in MovesApplied : mv[j].at <= mv[k].at

\* C18: after any sequence of successful POST /move-file-smart requests on a file
\* that started with one parent, interleaved or not, the file has exactly one
\* parent, the destination of the reparent applied last.
MoveSmartLastWins ==
  MovesApplied # {} => drive[MvFile].parents = <<mv[LastApplied].destinationFolderId>>

(***************************************************************************)
(* Two POST /create-case-folders requests in progress at the same time.    *)
(***************************************************************************)
PairDocTypes == {<<>>, <<Lit(<<"a">>)>>}

CreateCaseFolders2(rootName, docTypes, parentId) ==
  /\ CreateCaseFoldersOn(cc2, cc2', rootName, docTypes, parentId)
  /\ UNCHANGED <<env, resp, clock, tokens, sz, db, reg, cc, mv>>

ProviderCreate2(i) ==
  /\ ProviderCreateOn(cc2, cc2', i)
  /\ UNCHANGED <<env, resp, clock, tokens, sz, db, reg, cc, mv>>

ProviderFail2(i) ==
  /\ ProviderFailOn(cc2, cc2', i)
  /\ UNCHANGED <<env, resp, clock, tokens, sz, db, reg, cc, mv>>

CcResume2(makePublic, createManifest) ==
  /\ CcResumeOn(cc2, cc2', makePublic, createManifest)
  /\ UNCHANGED <<env, resp, clock, tokens, sz, db, reg, cc, mv>>

InitPair == InitTree

\* The provider serves the calls of one request in the order the request issued
\* them (every order within one request is explored in the builder's own
\* specification) and the calls of the two requests in every interleaving.
InOrder(c, i) == \A j \in 1..(i - 1) : c.tasks[j].st # "create"

NextPair ==
  \/ \E docTypes \in PairDocTypes : CreateCaseFolders(Lit(<<"r">>), docTypes, 0)
  \/ \E docTypes \in PairDocTypes : CreateCaseFolders2(Lit(<<"r">>), docTypes, 0)
  \/ \E i \in 1..Len(cc.tasks) :
       InOrder(cc, i) /\ (ProviderCreate(i) \/ ProviderFail(i))
  \/ \E i \in 1..Len(cc2.tasks) :
       InOrder(cc2, i) /\ (ProviderCreate2(i) \/ ProviderFail2(i))
  \/ CcResume(FALSE, FALSE)
  \/ CcResume2(FALSE, FALSE)

SpecPair == InitPair /\ [][NextPair]_vars

\* The folders a successful request reports: root, status folders, docType folders.
StatusOf(c) == {c.body.statusFolders.pending.id, c.body.statusFolders.approved.id,
                c.body.statusFolders.rejected.id}
DocsOf(c) == {c.body.docFolders[k][i].id :
                k \in DOMAIN c.body.docFolders, i \in 1..Len(c.docTypes)}
TreeOf(c) == {c.body.root.id} \cup StatusOf(c) \cup DocsOf(c)
BuildOkOf(c) == c.pc = "done" /\ c.status = 200

\* One request's tree is complete and closed: 1 + 3 + 3n folders, the root under
\* the configured parent, every status folder under the root, every docType folder
\* under one of the status folders.
OwnTree(c) ==
  /\ Cardinality(TreeOf(c)) = 1 + 3 + 3 * Len(c.docTypes)
  /\ Cardinality(StatusOf(c)) = 3 /\ Cardinality(DocsOf(c)) = 3 * Len(c.docTypes)
  /\ TreeOf(c) \subseteq FolderIds(drive)
  /\ drive[c.body.root.id].name = sanitize(c.rootName)
  /\ drive[c.body.root.id].parents = <<DefaultParentId>>
  /\ \A s \in StatusOf(c) : drive[s].parents = <<c.body.root.id>>
  /\ \A f \in DocsOf(c) :
       Len(drive[f].parents) = 1 /\ drive[f].parents[1] \in StatusOf(c)

\* C17: two POST /create-case-folders requests with the same rootName whose
\* provider calls interleave both succeed (the provider not failing), each with
\* its own tree: no folder id is in both answers, every parent link stays inside
\* one tree, and each tree has 1 + 3 + 3n folders.
PairOwnTrees ==
  (BuildOkOf(cc) /\ BuildOkOf(cc2)) =>
    /\ cc.rootName = cc2.rootName
    /\ TreeOf(cc) \cap TreeOf(cc2) = {}
    /\ OwnTree(cc) /\ OwnTree(cc2)
    /\ FolderIds(drive) \ Ids(Drive0) = TreeOf(cc) \cup TreeOf(cc2)

\* Both requests have succeeded with docType folders, the second request's root
\* created first and the status folders of the two trees created alternately.
PairOwnTreesWitness ==
  /\ BuildOkOf(cc) /\ BuildOkOf(cc2)
  /\ Len(cc.docTypes) = 1 /\ Len(cc2.docTypes) = 1
  /\ cc2.body.root.id < cc.body.root.id
  /\ \E s1 \in StatusOf(cc), s2 \in StatusOf(cc2), s3 \in StatusOf(cc) : s1 < s2 /\ s2 < s3

----------------------------------------------------------------------------
(* sanitize applied to bounded inputs, once and then to its own output *)

MaxRuns == 3

RunLens == {1, MaxNameLen - 1, MaxNameLen}
InputChars == {"a", " ", "/"}

RECURSIVE StrsUpTo(_)
StrsUpTo(k) ==
  IF k = 0 THEN {<<>>}
  ELSE LET shorter == StrsUpTo(k - 1)
       IN shorter \cup
          {<<R(c, n)>> \o s : c \in InputChars, n \in RunLens,
                             s \in {t \in shorter : Len(t) = k - 1}}

StrInputs == {s \in StrsUpTo(MaxRuns) : Norm(s) = s}

SanitizeOnce ==
  /\ sz.pc = "in"
  /\ sz' = [sz EXCEPT !.pc = "once", !.y1 = sanitize(sz.x)]
  /\ UNCHANGED <<env, drive, cc, resp, clock, tokens, db, reg, cc2, mv>>

SanitizeTwice ==
  /\ sz.pc = "once"
  /\ sz' = [sz EXCEPT !.pc = "twice", !.y2 = sanitize(sz.y1)]
  /\ UNCHANGED <<env, drive, cc, resp, clock, tokens, db, reg, cc2, mv>>

InitSanitize ==
  /\ env = Env0 /\ drive = Drive0 /\ cc = CcIdle /\ resp = NoResp
  /\ clock = Clock0 /\ tokens = {}
  /\ db = Db0 /\ reg = RegIdle /\ cc2 = CcIdle /\ mv = <<>>
  /\ sz \in {[SzIdle EXCEPT !.pc = "in", !.x = x] : x \in StrInputs}

NextSanitize == SanitizeOnce \/ SanitizeTwice

SpecSanitize == InitSanitize /\ [][NextSanitize]_vars

\* C10: sanitize(sanitize(x)) = sanitize(x) for every input string x.
SanitizeIdempotent == sz.pc = "twice" => sz.y2 = sz.y1

====
